---- MODULE Spec2Model ----
(***************************************************************************)
(* Model of the two external_pr.py synchronisation scripts                 *)
(*   admin_utils/external_pr_files/external_pr.py   (variant "admin")      *)
(*   external_pr_files/external_pr.py               (variant "ext")        *)
(* Each run of main clones the target repository, checks out the sync      *)
(* branch, mirrors the mapped files of the source pull request into the    *)
(* working tree, commits, pushes and creates or comments on the target     *)
(* pull request.  Between runs the source pull request may be edited and   *)
(* the target pull request may be closed or merged.                        *)
(***************************************************************************)
EXTENDS Naturals, Sequences, FiniteSets, TLC

\* ---------------------------------------------------------------- bounds
MaxRuns == 2
MaxEdits == 1
MaxItems == 2

\* ------------------------------------------------------------ vocabulary
Absent == "<absent>"
NoneStr == "<None>"
None == << >>
Some(x) == << x >>

JsonPath == "autosync/test_files.json"
SrcPaths == {"s1", "s2"}
TgtPaths == {"t1", "t2"}
UnmappedPath == "u"

RepoName == "owner/Parent"
PrNumber == "7"

\* What gh pr view prints for the source pull request: mergedAt (None while
\* the pull request is open), headRefName, and baseRefName (None: the key is
\* missing from the answer).
PrData(merged_at, head_ref, base_ref) ==
    [mergedAt |-> merged_at, headRefName |-> head_ref, baseRefName |-> base_ref]
OpenPr == PrData(NoneStr, "feature", "dev")
MergedPr == PrData("2024-05-01T10:00:00Z", "feature", "dev")
MergedPrNoBase == PrData("2024-05-01T10:00:00Z", "feature", NoneStr)

\* The texts the tracked JSON file takes in the model.
DocOne == "[{\"source\":\"s1\",\"target\":\"t1\"}]"
DocTwo == "[{\"source\":\"s1\",\"target\":\"t1\"},{\"source\":\"s2\"},{\"source\":\"s2\",\"target\":\"t2\"}]"

Item(s, t) == [source |-> s, target |-> t]

\* json.loads / json.load on the texts above; a key an item lacks reads as
\* None through dict.get.
JsonLoads(text) ==
    CASE text = DocOne -> << Item("s1", "t1") >>
      [] text = DocTwo -> << Item("s1", "t1"), Item("s2", NoneStr), Item("s2", "t2") >>

\* Python truthiness of a str (or None) and of Optional[dict] / list.
TruthyStr(s) == s # NoneStr /\ s # ""
Truthy(json_content) == json_content # None /\ json_content[1] # << >>

\* ------------------------------------------------------------------- git
\* The blob id git prints for a file's content.
HashObject(content) == "blob:" \o content

\* git rev-parse <ref>:<path> on the tree of <ref>.
RevParse(tree, path) ==
    IF path \in DOMAIN tree /\ tree[path] # Absent
    THEN [rc |-> 0, stdout |-> HashObject(tree[path])]
    ELSE [rc |-> 128, stdout |-> ""]

\* git show <ref>:<path> on the tree of <ref>.
GitShow(tree, path) ==
    IF path \in DOMAIN tree /\ tree[path] # Absent
    THEN [rc |-> 0, stdout |-> tree[path]]
    ELSE [rc |-> 128, stdout |-> ""]

\* Path(...).exists() in the working tree.
Exists(wt, path) == path \in DOMAIN wt /\ wt[path] # Absent

\* open(path, "w").write(text) followed by git add path.
WriteFile(st, path, text) == [st EXCEPT !.worktree[path] = text]
GitAdd(st, path) ==
    [st EXCEPT !.index[path] = st.worktree[path], !.cmds = Append(@, "add")]
\* git rm path: drops the file from the working tree and the index.
GitRm(st, path) ==
    [st EXCEPT !.worktree[path] = Absent, !.index[path] = Absent,
               !.cmds = Append(@, "rm")]

\* ------------------------------------------------------- get_sync_mapping
\* Mutant of keep_item: the target is not tested.
keep_item_source_only(item) == TruthyStr(item.source)

\* admin_utils variant: `if source and target` on one item.
keep_item(item) == TruthyStr(item.source) /\ TruthyStr(item.target)

RECURSIVE mapping_loop(_, _, _)
mapping_loop(items, i, acc) ==
    IF i > Len(items) THEN acc
    ELSE mapping_loop(items, i + 1,
            IF keep_item(items[i])
            THEN Append(acc, << items[i].source, items[i].target >>)
            ELSE acc)

\* admin_utils variant: early return on falsy content, then the loop.
get_sync_mapping(json_content) ==
    IF ~Truthy(json_content) THEN << >>
    ELSE mapping_loop(json_content[1], 1, << >>)

\* external_pr_files variant: the loop guarded by the truthiness test.
keep_item_ext(item) == TruthyStr(item.source) /\ TruthyStr(item.target)

RECURSIVE mapping_loop_ext(_, _, _)
mapping_loop_ext(items, i, acc) ==
    IF i > Len(items) THEN acc
    ELSE mapping_loop_ext(items, i + 1,
            IF keep_item_ext(items[i])
            THEN Append(acc, << items[i].source, items[i].target >>)
            ELSE acc)

get_sync_mapping_ext(json_content) ==
    IF Truthy(json_content)
    THEN mapping_loop_ext(json_content[1], 1, << >>)
    ELSE << >>

\* --------------------------------------------- admin_utils: the JSON file
\* Optional blob id of a path: None when rev-parse fails.
ShaOf(tree, path) ==
    LET r == RevParse(tree, path)
    IN IF r.rc = 0 THEN Some(r.stdout) ELSE None

\* Mutant of json_update: the written file is not staged.
json_update_unstaged(src, st) ==
    IF ShaOf(src, JsonPath) # None
    THEN LET sh == GitShow(src, JsonPath)
         IN IF sh.rc = 0 /\ sh.stdout # ""
            THEN [st |-> WriteFile(st, JsonPath, sh.stdout),
                  json_content |-> Some(JsonLoads(sh.stdout))]
            ELSE [st |-> st, json_content |-> None]
    ELSE [st |-> IF Exists(st.worktree, JsonPath) THEN GitRm(st, JsonPath) ELSE st,
          json_content |-> None]

\* The branch taken when the two blob ids differ.
json_update(src, st) ==
    IF ShaOf(src, JsonPath) # None
    THEN LET sh == GitShow(src, JsonPath)
         IN IF sh.rc = 0 /\ sh.stdout # ""
            THEN [st |-> GitAdd(WriteFile(st, JsonPath, sh.stdout), JsonPath),
                  json_content |-> Some(JsonLoads(sh.stdout))]
            ELSE [st |-> st, json_content |-> None]
    ELSE [st |-> IF Exists(st.worktree, JsonPath) THEN GitRm(st, JsonPath) ELSE st,
          json_content |-> None]

get_json_from_source(src, mn, st) ==
    LET source_sha == ShaOf(src, JsonPath)
        target_sha == ShaOf(mn, JsonPath)
    IN IF source_sha = target_sha
       THEN [st |-> st,
             json_content |-> IF Exists(st.worktree, JsonPath)
                              THEN Some(JsonLoads(st.worktree[JsonPath]))
                              ELSE None,
             json_changed |-> FALSE]
       ELSE LET u == json_update(src, st)
            IN [st |-> u.st, json_content |-> u.json_content, json_changed |-> TRUE]

\* ------------------------------------------------- admin_utils: run_sync
\* One iteration of sync_files_from_source; r carries the tree state and
\* the has_changes flag.
sync_one(r, src, pair) ==
    LET sh == GitShow(src, pair[1])
        target_path == pair[2]
    IN IF sh.rc = 0 /\ sh.stdout # ""
       THEN [st |-> GitAdd(WriteFile(r.st, target_path, sh.stdout), target_path),
             has_changes |-> TRUE]
       ELSE IF Exists(r.st.worktree, target_path)
            THEN [st |-> GitRm(r.st, target_path), has_changes |-> TRUE]
            ELSE r

RECURSIVE sync_loop(_, _, _, _)
sync_loop(r, src, sync_list, i) ==
    IF i > Len(sync_list) THEN r
    ELSE sync_loop(sync_one(r, src, sync_list[i]), src, sync_list, i + 1)

sync_files_from_source(st, src, sync_list) ==
    sync_loop([st |-> st, has_changes |-> FALSE], src, sync_list, 1)

\* Mutant of needs_sync: a source that does not resolve is skipped.
needs_sync_source_only(src, mn, pair) ==
    ShaOf(src, pair[1]) # None /\ ShaOf(src, pair[1]) # ShaOf(mn, pair[2])

\* Mutant of needs_sync: every pair of the mapping is selected.
needs_sync_always(src, mn, pair) == TRUE

\* The test of run_sync's loop: the blob ids of the pair differ.
needs_sync(src, mn, pair) == ShaOf(src, pair[1]) # ShaOf(mn, pair[2])

RECURSIVE select_loop(_, _, _, _, _)
select_loop(src, mn, sync_mapping, i, acc) ==
    IF i > Len(sync_mapping) THEN acc
    ELSE select_loop(src, mn, sync_mapping, i + 1,
            IF needs_sync(src, mn, sync_mapping[i])
            THEN [files_to_sync |-> Append(acc.files_to_sync, sync_mapping[i]),
                  files_to_sync_found |-> TRUE]
            ELSE acc)

run_sync(src, mn, st, json_content, json_changed) ==
    IF Truthy(json_content)
    THEN LET sync_mapping == get_sync_mapping(json_content)
             sel == select_loop(src, mn, sync_mapping, 1,
                        [files_to_sync |-> << >>, files_to_sync_found |-> FALSE])
             s == sync_files_from_source(st, src, sel.files_to_sync)
         IN IF sel.files_to_sync # << >>
            THEN [st |-> s.st, has_changes |-> json_changed \/ s.has_changes,
                  files_to_sync_found |-> sel.files_to_sync_found,
                  files_to_sync |-> sel.files_to_sync,
                  sync_called |-> TRUE, synced |-> s.has_changes,
                  has_deletions |-> FALSE]
            ELSE [st |-> st, has_changes |-> json_changed,
                  files_to_sync_found |-> sel.files_to_sync_found,
                  files_to_sync |-> << >>,
                  sync_called |-> FALSE, synced |-> FALSE,
                  has_deletions |-> FALSE]
    ELSE [st |-> st, has_changes |-> json_changed,
          files_to_sync_found |-> FALSE, files_to_sync |-> << >>,
          sync_called |-> FALSE, synced |-> FALSE, has_deletions |-> FALSE]

\* ------------------------------------------- external_pr_files: PR files
InSeq(x, seq) == \E i \in 1..Len(seq) : seq[i] = x

\* The "files" of gh pr view for a list of changed paths: a path that is
\* gone from the PR head is reported as removed.
PrFiles(src, paths) ==
    [i \in 1..Len(paths) |->
        [path |-> paths[i],
         status |-> IF paths[i] \in DOMAIN src /\ src[paths[i]] = Absent
                    THEN "removed" ELSE "modified"]]

\* get_pr_info's two list comprehensions.
ChangedFiles(files) == [i \in 1..Len(files) |-> files[i].path]
IsRemoved(f) == f.status = "removed"
DeletedFiles(files) == ChangedFiles(SelectSeq(files, IsRemoved))

\* -------------------------------------- external_pr_files: the JSON file
get_and_update_json_if_changed(src, st, changed_files) ==
    LET json_changed == InSeq(JsonPath, changed_files)
        sh == GitShow(src, JsonPath)
    IN IF sh.rc = 0 /\ sh.stdout # ""
       THEN [st |-> IF json_changed
                    THEN GitAdd(WriteFile(st, JsonPath, sh.stdout), JsonPath)
                    ELSE st,
             json_content |-> Some(JsonLoads(sh.stdout)),
             json_changed |-> json_changed]
       ELSE IF json_changed /\ Exists(st.worktree, JsonPath)
            THEN [st |-> GitRm(st, JsonPath), json_content |-> Some(<< >>),
                  json_changed |-> json_changed]
            ELSE [st |-> st, json_content |-> None, json_changed |-> json_changed]

\* main's has_files_to_sync.
has_files_to_sync(changed_files, sync_mapping) ==
    \E i \in 1..Len(changed_files) :
        /\ changed_files[i] # JsonPath
        /\ \E j \in 1..Len(sync_mapping) : sync_mapping[j][1] = changed_files[i]

\* ------------------------------------------ external_pr_files: run_sync
\* One iteration of sync_files_from_pr.
sync_one_pr(r, src, pair) ==
    LET sh == GitShow(src, pair[1])
        target_path == pair[2]
    IN IF sh.rc = 0 /\ sh.stdout # ""
       THEN [st |-> GitAdd(WriteFile(r.st, target_path, sh.stdout), target_path),
             has_changes |-> TRUE]
       ELSE r

RECURSIVE sync_pr_loop(_, _, _, _)
sync_pr_loop(r, src, sync_mapping, i) ==
    IF i > Len(sync_mapping) THEN r
    ELSE sync_pr_loop(sync_one_pr(r, src, sync_mapping[i]), src, sync_mapping, i + 1)

sync_files_from_pr(st, src, sync_mapping) ==
    sync_pr_loop([st |-> st, has_changes |-> FALSE], src, sync_mapping, 1)

\* source_to_targets.get(deleted_file, []): the targets mapped from a source,
\* in mapping order.
RECURSIVE targets_of(_, _, _)
targets_of(source, sync_mapping, i) ==
    IF i > Len(sync_mapping) THEN << >>
    ELSE IF sync_mapping[i][1] = source
         THEN << sync_mapping[i][2] >> \o targets_of(source, sync_mapping, i + 1)
         ELSE targets_of(source, sync_mapping, i + 1)

\* The body of handle_deleted_files' inner loop.
delete_one(r, target_path) ==
    IF ~TruthyStr(target_path) THEN r
    ELSE IF ~Exists(r.st.worktree, target_path) THEN r
    ELSE [st |-> GitRm(r.st, target_path), has_changes |-> TRUE]

RECURSIVE delete_targets(_, _, _)
delete_targets(r, targets, j) ==
    IF j > Len(targets) THEN r
    ELSE delete_targets(delete_one(r, targets[j]), targets, j + 1)

RECURSIVE deleted_loop(_, _, _, _)
deleted_loop(r, deleted_files, sync_mapping, i) ==
    IF i > Len(deleted_files) THEN r
    ELSE deleted_loop(
            delete_targets(r, targets_of(deleted_files[i], sync_mapping, 1), 1),
            deleted_files, sync_mapping, i + 1)

handle_deleted_files(st, deleted_files, sync_mapping) ==
    deleted_loop([st |-> st, has_changes |-> FALSE], deleted_files, sync_mapping, 1)

\* Mutant of matches: the changed file is compared with the pair's target.
matches_target(file, pair) == pair[2] = file

\* The inner loop of run_sync for one changed file, and its test.
matches(file, pair) == pair[1] = file

RECURSIVE match_loop(_, _, _, _)
match_loop(file, sync_mapping, j, acc) ==
    IF j > Len(sync_mapping) THEN acc
    ELSE match_loop(file, sync_mapping, j + 1,
            IF matches(file, sync_mapping[j])
            THEN [files_to_sync |-> Append(acc.files_to_sync, sync_mapping[j]),
                  files_to_sync_found |-> TRUE]
            ELSE acc)

\* Whether run_sync's outer loop looks a changed file up in the mapping.
is_candidate(file) == file # JsonPath

RECURSIVE needed_loop(_, _, _, _)
needed_loop(changed_files, sync_mapping, i, acc) ==
    IF i > Len(changed_files) THEN acc
    ELSE needed_loop(changed_files, sync_mapping, i + 1,
            IF is_candidate(changed_files[i])
            THEN match_loop(changed_files[i], sync_mapping, 1, acc)
            ELSE acc)

run_sync_ext(src, st, changed_files, deleted_files, json_content, json_changed) ==
    LET sync_mapping == IF Truthy(json_content)
                        THEN get_sync_mapping_ext(json_content) ELSE << >>
        sel == needed_loop(changed_files, sync_mapping, 1,
                   [files_to_sync |-> << >>, files_to_sync_found |-> FALSE])
        called == sel.files_to_sync # << >>
        s == IF called THEN sync_files_from_pr(st, src, sel.files_to_sync)
             ELSE [st |-> st, has_changes |-> FALSE]
        del_called == deleted_files # << >> /\ sync_mapping # << >>
        d == IF del_called THEN handle_deleted_files(s.st, deleted_files, sync_mapping)
             ELSE [st |-> s.st, has_changes |-> FALSE]
    IN [st |-> d.st,
        has_changes |-> (json_changed \/ s.has_changes) \/ d.has_changes,
        files_to_sync_found |-> sel.files_to_sync_found \/ d.has_changes,
        files_to_sync |-> sel.files_to_sync,
        sync_called |-> called, synced |-> s.has_changes,
        has_deletions |-> d.has_changes]

\* ------------------------------------------- admin_utils: the source ref
\* pr_data.get("baseRefName", "main").
base_ref_of(pr) == IF pr.baseRefName = NoneStr THEN "main" ELSE pr.baseRefName

\* Mutant of source_ref_of: the two branches are swapped.
source_ref_swapped(pr) ==
    IF TruthyStr(pr.mergedAt)
    THEN "parent-repo/" \o pr.headRefName
    ELSE "parent-repo/" \o base_ref_of(pr)

\* main's choice of source_ref from merged_at.
source_ref_of(pr) ==
    IF TruthyStr(pr.mergedAt)
    THEN "parent-repo/" \o base_ref_of(pr)
    ELSE "parent-repo/" \o pr.headRefName

\* external_pr_files: the remote name and pr_branch handed to git show.
source_ref_ext(pr) == "parent-repo/" \o pr.headRefName

\* The parent repository after the fetch.  The files of the pull request are
\* on its head branch while it is open and on its base branch once it is
\* merged (the key baseRefName is only missing when the base is main); the
\* other of the two branches holds OldTree.
LiveRef(pr) ==
    IF pr.mergedAt # NoneStr
    THEN "parent-repo/" \o (IF pr.baseRefName = NoneStr THEN "main" ELSE pr.baseRefName)
    ELSE "parent-repo/" \o pr.headRefName

OldTree ==
    [p \in {"s1", "s2", JsonPath} |-> IF p = JsonPath THEN DocOne ELSE "old"]

RefTree(pr, src, ref) == IF ref = LiveRef(pr) THEN src ELSE OldTree

\* ------------------------------------------------ commit, push, the PR
branch_name_of(repo_name, pr_number) ==
    "auto-update-from-" \o repo_name \o "-pr-" \o pr_number

\* Mutant of commit_message: files_to_sync_found is not consulted.
commit_message_json_only(json_changed, files_to_sync_found, repo_name, pr_number) ==
    IF json_changed
    THEN "Update sync mapping from " \o repo_name \o " PR " \o pr_number
    ELSE "Sync changes from " \o repo_name \o " PR " \o pr_number

\* commit_and_push_changes' choice of the commit message.
commit_message(json_changed, files_to_sync_found, repo_name, pr_number) ==
    IF json_changed /\ ~files_to_sync_found
    THEN "Update sync mapping from " \o repo_name \o " PR " \o pr_number
    ELSE "Sync changes from " \o repo_name \o " PR " \o pr_number

\* git commit: a new commit when the index differs from HEAD's tree, exit
\* code 1 and nothing else when there is nothing to commit.
GitCommit(head_tree, index) ==
    IF index # head_tree THEN [rc |-> 0, head |-> index, created |-> TRUE]
    ELSE [rc |-> 1, head |-> head_tree, created |-> FALSE]

\* gh pr list --head <branch> --json number: the open pull requests of the
\* branch, newest first.
RECURSIVE OpenNumbers(_, _, _)
OpenNumbers(pulls, head_branch, i) ==
    IF i = 0 THEN << >>
    ELSE IF pulls[i].head = head_branch /\ pulls[i].state = "open"
         THEN << i >> \o OpenNumbers(pulls, head_branch, i - 1)
         ELSE OpenNumbers(pulls, head_branch, i - 1)

GhPrList(pulls, head_branch, ok) ==
    IF ok THEN [rc |-> 0, numbers |-> OpenNumbers(pulls, head_branch, Len(pulls))]
    ELSE [rc |-> 1, numbers |-> << >>]

\* gh pr create --head <branch>: refused while the branch has an open PR.
GhPrCreate(pulls, head_branch) ==
    IF OpenNumbers(pulls, head_branch, Len(pulls)) = << >>
    THEN [rc |-> 0, pulls |-> Append(pulls, [head |-> head_branch, state |-> "open"])]
    ELSE [rc |-> 1, pulls |-> pulls]

\* Mutant of target_pr_number_of: the list's answer is never read.
target_pr_number_unread(listing) == None

\* The number create_or_update_pr reads off the list.
target_pr_number_of(listing) ==
    IF listing.rc = 0 /\ listing.numbers # << >> THEN Some(listing.numbers[1]) ELSE None

\* Mutant of pr_command: the listed pull request is ignored.
pr_command_always_create(has_commits, target_pr_number) ==
    IF has_commits THEN [cmd |-> "pr_create", number |-> 0]
    ELSE [cmd |-> "skip", number |-> 0]

\* The gh command create_or_update_pr issues after the list.
pr_command(has_commits, target_pr_number) ==
    IF has_commits
    THEN IF target_pr_number = None
         THEN [cmd |-> "pr_create", number |-> 0]
         ELSE [cmd |-> "pr_comment", number |-> target_pr_number[1]]
    ELSE [cmd |-> "skip", number |-> 0]

\* ------------------------------------------------------------------ state
VARIABLES
    variant,          \* which script runs: "admin" or "ext"
    source,           \* tree of the source ref (parent-repo/<ref>)
    pr_data,          \* what gh pr view prints for the source pull request
    main,             \* tree of origin/main of the target repository
    branchExists,     \* refs/remotes/origin/<branch> exists
    branch,           \* tree of the pushed sync branch
    ahead,            \* the pushed branch has commits that main lacks
    prs,              \* pull requests of the target repository
    labelExists,      \* the "automated pr" label exists
    pc,               \* position of main
    runs, edits,      \* runs started, source edits made
    branch_name,
    gh_token,         \* os.environ.get("GH_TOKEN") of this run
    source_ref,       \* the ref main compares with origin/main
    st,               \* [worktree, index, cmds] of the clone in this run
    head,             \* tree of the local HEAD
    localAhead,       \* the local branch has commits that origin/main lacks
    wt0,              \* the working tree right after checkout
    changed_files, deleted_files,
    json_content, json_changed,
    sync,             \* what run_sync returned (and handed on); ran: it ran
    commit_msg,
    listed,           \* what gh pr list returned
    pr_cmd,           \* the gh command issued after the list
    out_admin, out_ext \* results of the two get_sync_mapping on json_content

vars == << variant, source, pr_data, main, branchExists, branch, ahead, prs, labelExists,
           pc, runs, edits, branch_name, gh_token, source_ref, st, head, localAhead, wt0,
           changed_files, deleted_files, json_content, json_changed, sync,
           commit_msg, listed, pr_cmd, out_admin, out_ext >>

world == << source, pr_data, main, branchExists, branch, ahead, prs, labelExists >>
locals == << gh_token, source_ref, changed_files, deleted_files, json_content, json_changed, sync,
             commit_msg, listed, pr_cmd >>

\* The inputs of the model.  The admin_utils script compares contents, so its
\* files take two distinct non-empty contents; the external_pr_files script
\* only tells a missing, an empty and a non-empty file apart.
\* The second pair of the mapping exercises the loops over several pairs: its
\* source is missing or present, its target is present at origin/main.
JsonVals == {Absent, "", DocOne, DocTwo}
SrcVals(v) == IF v = "admin" THEN {Absent, "", "a", "b"} ELSE {Absent, "", "a"}
TgtVals == {Absent, "a"}
SecondTgtVals == {"a"}
MainJsonVals == {Absent, DocTwo}
SecondVals == {Absent, "a"}
PathVals(v, p) ==
    IF p = JsonPath THEN JsonVals ELSE IF p = "s1" THEN SrcVals(v) ELSE SecondVals
SourceTrees(v) ==
    { [p \in SrcPaths \cup {JsonPath} |->
          IF p = "s1" THEN a ELSE IF p = "s2" THEN b ELSE j] :
      a \in SrcVals(v), b \in SecondVals, j \in JsonVals }
PrDataOptions(v) ==
    IF v = "admin" THEN {OpenPr, MergedPr, MergedPrNoBase} ELSE {OpenPr}
MainTrees ==
    { [p \in TgtPaths \cup {JsonPath} |->
          IF p = "t1" THEN a ELSE IF p = "t2" THEN b ELSE j] :
      a \in TgtVals, b \in SecondTgtVals, j \in MainJsonVals }

\* The changed-path lists gh pr view reports in the model.
ChangedOptions ==
    { << >>, << "s1", "s2" >>, << UnmappedPath >>, << JsonPath >>,
      << JsonPath, "s1", UnmappedPath >> }

NoSync == [ran |-> FALSE, has_changes |-> FALSE, files_to_sync_found |-> FALSE,
           files_to_sync |-> << >>, sync_called |-> FALSE, synced |-> FALSE,
           has_deletions |-> FALSE]

NoListing == [rc |-> 0, numbers |-> << >>]
NoCommand == [cmd |-> "none", number |-> 0]

Stopped == {"idle", "done", "exit0", "exit1", "exit1_inputs"}

\* GH_TOKEN in the environment of a run: unset, empty, or a token.
TokenVals == {NoneStr, "", "ghp_token"}

Init ==
    /\ variant \in {"admin", "ext"}
    /\ source \in SourceTrees(variant)
    /\ pr_data \in PrDataOptions(variant)
    /\ main \in MainTrees
    /\ branchExists = FALSE
    /\ branch = main
    /\ ahead = FALSE
    /\ prs = << >>
    /\ labelExists = FALSE
    /\ pc = "idle"
    /\ runs = 0
    /\ edits = 0
    /\ branch_name = ""
    /\ gh_token = NoneStr
    /\ source_ref = ""
    /\ st = [worktree |-> main, index |-> main, cmds |-> << >>]
    /\ head = main
    /\ localAhead = FALSE
    /\ wt0 = main
    /\ changed_files = << >>
    /\ deleted_files = << >>
    /\ json_content = None
    /\ json_changed = FALSE
    /\ sync = NoSync
    /\ commit_msg = ""
    /\ listed = NoListing
    /\ pr_cmd = NoCommand
    /\ out_admin = << >>
    /\ out_ext = << >>

\* ---------------------------------------------------------------- main
\* Mutant of after_sync: commit and push whatever run_sync reported.
after_sync_unguarded(has_changes) == "synced"

\* main's test of sync_result.has_changes: commit and push, or exit(0).
after_sync(has_changes) == IF has_changes THEN "synced" ELSE "exit0"

Log(state, cmds) == [state EXCEPT !.cmds = @ \o cmds]

\* Mutant of token_ok: only an unset GH_TOKEN is refused.
token_ok_unless_unset(token) == token # NoneStr

\* validate_and_process_inputs' test `if not gh_token`.
token_ok(token) == TruthyStr(token)

\* validate_and_process_inputs and prepare_target_repo: exit status 1 without
\* GH_TOKEN; otherwise a fresh clone, the label, and the sync branch checked
\* out (from origin when it exists there, from main otherwise).
PrepareTargetRepo ==
    /\ pc \in Stopped
    /\ runs < MaxRuns
    /\ runs' = runs + 1
    /\ branch_name' = branch_name_of(RepoName, PrNumber)
    /\ \E token \in TokenVals :
        /\ gh_token' = token
        /\ IF token_ok(token)
           THEN LET tree == IF branchExists THEN branch ELSE main
                    cmds == << "clone", "label_list" >>
                            \o (IF labelExists THEN << >> ELSE << "label_create" >>)
                            \o << "checkout" >>
                IN /\ st' = [worktree |-> tree, index |-> tree, cmds |-> cmds]
                   /\ head' = tree
                   /\ wt0' = tree
                   /\ localAhead' = (branchExists /\ ahead)
                   /\ labelExists' = TRUE
                   /\ pc' = "prepared"
           ELSE /\ st' = [worktree |-> main, index |-> main, cmds |-> << >>]
                /\ head' = main
                /\ wt0' = main
                /\ localAhead' = FALSE
                /\ labelExists' = labelExists
                /\ pc' = "exit1_inputs"
    /\ source_ref' = ""
    /\ changed_files' = << >>
    /\ deleted_files' = << >>
    /\ json_content' = None
    /\ json_changed' = FALSE
    /\ sync' = NoSync
    /\ commit_msg' = ""
    /\ listed' = NoListing
    /\ pr_cmd' = NoCommand
    /\ UNCHANGED << out_admin, out_ext, variant, source, pr_data, main, branchExists, branch, ahead, prs, edits >>

\* admin_utils main: get_pr_data, the head ref, add_remote_and_fetch and the
\* fetch of origin/main.  ok is whether gh pr view answered with a head ref.
GetPrData ==
    /\ pc = "prepared"
    /\ variant = "admin"
    /\ \E ok \in BOOLEAN :
        /\ pc' = IF ok THEN "pr_info" ELSE "exit0"
        /\ st' = Log(st, IF ok THEN << "pr_view", "fetch" >> ELSE << "pr_view" >>)
        /\ source_ref' = IF ok THEN source_ref_of(pr_data) ELSE source_ref
    /\ UNCHANGED << out_admin, out_ext, variant, gh_token, world, runs, edits, branch_name, head, localAhead,
                    wt0, changed_files, deleted_files, json_content, json_changed,
                    sync, commit_msg, listed, pr_cmd >>

\* external_pr_files get_pr_info.
GetPrInfo ==
    /\ pc = "prepared"
    /\ variant = "ext"
    /\ \E paths \in ChangedOptions :
        LET files == PrFiles(source, paths)
        IN /\ changed_files' = ChangedFiles(files)
           /\ deleted_files' = DeletedFiles(files)
           /\ pc' = IF ChangedFiles(files) # << >> THEN "pr_info" ELSE "exit0"
           /\ st' = Log(st, IF ChangedFiles(files) # << >>
                            THEN << "pr_view", "fetch" >> ELSE << "pr_view" >>)
           /\ source_ref' = source_ref_ext(pr_data)
    /\ UNCHANGED << out_admin, out_ext, variant, gh_token, world, runs, edits, branch_name, head, localAhead,
                    wt0, json_content, json_changed, sync, commit_msg, listed,
                    pr_cmd >>

\* admin_utils main: get_json_from_source.
GetJsonFromSource ==
    /\ pc = "pr_info"
    /\ variant = "admin"
    /\ LET r == get_json_from_source(RefTree(pr_data, source, source_ref), main, st)
       IN /\ st' = r.st
          /\ json_content' = r.json_content
          /\ json_changed' = r.json_changed
    /\ pc' = "json"
    /\ UNCHANGED << out_admin, out_ext, variant, gh_token, world, runs, edits, branch_name, source_ref, head, localAhead,
                    wt0, changed_files, deleted_files, sync, commit_msg, listed,
                    pr_cmd >>

\* external_pr_files main: get_and_update_json_if_changed and the early exit.
GetAndUpdateJson ==
    /\ pc = "pr_info"
    /\ variant = "ext"
    /\ LET r == get_and_update_json_if_changed(RefTree(pr_data, source, source_ref),
                                                st, changed_files)
           sync_mapping == get_sync_mapping_ext(r.json_content)
       IN /\ st' = r.st
          /\ json_content' = r.json_content
          /\ json_changed' = r.json_changed
          /\ pc' = IF ~has_files_to_sync(changed_files, sync_mapping) /\ ~r.json_changed
                   THEN "exit0" ELSE "json"
    /\ UNCHANGED << out_admin, out_ext, variant, gh_token, world, runs, edits, branch_name, source_ref, head, localAhead,
                    wt0, changed_files, deleted_files, sync, commit_msg, listed,
                    pr_cmd >>

\* main: run_sync and the test of sync_result.has_changes.
RunSync ==
    /\ pc = "json"
    /\ LET src == RefTree(pr_data, source, source_ref)
           r == IF variant = "admin"
                THEN run_sync(src, main, st, json_content, json_changed)
                ELSE run_sync_ext(src, st, changed_files, deleted_files,
                                  json_content, json_changed)
       IN /\ st' = r.st
          /\ sync' = [ran |-> TRUE, has_changes |-> r.has_changes,
                      files_to_sync_found |-> r.files_to_sync_found,
                      files_to_sync |-> r.files_to_sync,
                      sync_called |-> r.sync_called,
                      synced |-> r.synced,
                      has_deletions |-> r.has_deletions]
          /\ pc' = after_sync(r.has_changes)
    /\ UNCHANGED << out_admin, out_ext, variant, gh_token, world, runs, edits, branch_name, source_ref, head, localAhead,
                    wt0, changed_files, deleted_files, json_content, json_changed,
                    commit_msg, listed, pr_cmd >>

\* commit_and_push_changes.
CommitAndPush ==
    /\ pc = "synced"
    /\ commit_msg' = commit_message(json_changed, sync.files_to_sync_found,
                                    RepoName, PrNumber)
    /\ LET c == GitCommit(head, st.index)
       IN /\ head' = c.head
          /\ localAhead' = (localAhead \/ c.created)
          /\ branch' = c.head
          /\ ahead' = (localAhead \/ c.created)
    /\ branchExists' = TRUE
    /\ st' = Log(st, << "commit", "push" >>)
    /\ pc' = "pushed"
    /\ UNCHANGED << out_admin, out_ext, variant, gh_token, source, pr_data, source_ref, main, prs, labelExists, runs, edits,
                    branch_name, wt0, changed_files, deleted_files, json_content,
                    json_changed, sync, listed, pr_cmd >>

\* create_or_update_pr.  ok is whether gh pr list answered.
CreateOrUpdatePr ==
    /\ pc = "pushed"
    /\ \E ok \in BOOLEAN :
        LET listing == GhPrList(prs, branch_name, ok)
            has_commits == localAhead
            command == pr_command(has_commits, target_pr_number_of(listing))
            created == GhPrCreate(prs, branch_name)
        IN /\ listed' = listing
           /\ pr_cmd' = command
           /\ \/ /\ command.cmd = "pr_create"
                 /\ prs' = created.pulls
                 /\ pc' = IF created.rc = 0 THEN "done" ELSE "exit1"
                 /\ st' = Log(st, << "pr_list", "pr_create" >>)
              \/ /\ command.cmd = "pr_comment"
                 /\ prs' = prs
                 /\ pc' = "done"
                 /\ st' = Log(st, << "pr_list", "pr_comment" >>)
              \/ /\ command.cmd = "skip"
                 /\ prs' = prs
                 /\ pc' = "done"
                 /\ st' = Log(st, << "pr_list" >>)
    /\ UNCHANGED << out_admin, out_ext, variant, gh_token, source, pr_data, source_ref, main, branchExists, branch, ahead,
                    labelExists, runs, edits, branch_name, head, localAhead, wt0,
                    changed_files, deleted_files, json_content, json_changed,
                    sync, commit_msg >>

\* ---------------------------------------------------------- environment
\* Between runs no process is alive: the finished run's variables are gone
\* and its clone is deleted by the next run's clone_repo before it is read.
Forget ==
    /\ pc' = "idle"
    /\ st' = [worktree |-> main', index |-> main', cmds |-> << >>]
    /\ head' = main'
    /\ wt0' = main'
    /\ localAhead' = FALSE
    /\ gh_token' = NoneStr
    /\ source_ref' = ""
    /\ changed_files' = << >>
    /\ deleted_files' = << >>
    /\ json_content' = None
    /\ json_changed' = FALSE
    /\ sync' = NoSync
    /\ commit_msg' = ""
    /\ listed' = NoListing
    /\ pr_cmd' = NoCommand

\* The source pull request changes one file at its ref.
EditSource ==
    /\ pc \in Stopped
    /\ edits < MaxEdits
    /\ \E p \in DOMAIN source :
        \E v \in PathVals(variant, p) \ {source[p]} :
            source' = [source EXCEPT ![p] = v]
    /\ edits' = edits + 1
    /\ UNCHANGED << out_admin, out_ext, variant, pr_data, main, branchExists, branch, ahead, prs, labelExists,
                    runs, branch_name >>
    /\ Forget

\* A maintainer closes the open target pull request without merging.
ClosePr ==
    /\ pc \in Stopped
    /\ \E i \in 1..Len(prs) :
        /\ prs[i].state = "open"
        /\ prs' = [prs EXCEPT ![i].state = "closed"]
    /\ UNCHANGED << out_admin, out_ext, variant, source, pr_data, main, branchExists, branch, ahead,
                    labelExists, runs, edits, branch_name >>
    /\ Forget

\* A maintainer merges the open target pull request into main.
MergePr ==
    /\ pc \in Stopped
    /\ \E i \in 1..Len(prs) :
        /\ prs[i].state = "open"
        /\ prs' = [prs EXCEPT ![i].state = "merged"]
    /\ main' = branch
    /\ ahead' = FALSE
    /\ UNCHANGED << out_admin, out_ext, variant, source, pr_data, branchExists, branch, labelExists, runs,
                    edits, branch_name >>
    /\ Forget

Next ==
    \/ PrepareTargetRepo
    \/ GetPrData
    \/ GetPrInfo
    \/ GetJsonFromSource
    \/ GetAndUpdateJson
    \/ RunSync
    \/ CommitAndPush
    \/ CreateOrUpdatePr
    \/ EditSource
    \/ ClosePr
    \/ MergePr

Spec == Init /\ [][Next]_vars

\* ------------------------------------- get_sync_mapping on its own inputs
ItemSet == { Item(s, t) : s \in {NoneStr, "", "s1", "s2"}, t \in {NoneStr, "", "t1"} }
ItemLists == UNION { [1..n -> ItemSet] : n \in 0..MaxItems }
MappingInputs == {None} \cup { Some(items) : items \in ItemLists }

InitMapping ==
    /\ json_content \in MappingInputs
    /\ variant = "admin"
    /\ source = [p \in SrcPaths \cup {JsonPath} |-> Absent]
    /\ pr_data = OpenPr
    /\ main = [p \in TgtPaths \cup {JsonPath} |-> Absent]
    /\ branchExists = FALSE
    /\ branch = main
    /\ ahead = FALSE
    /\ prs = << >>
    /\ labelExists = FALSE
    /\ pc = "idle"
    /\ runs = 0
    /\ edits = 0
    /\ branch_name = ""
    /\ gh_token = NoneStr
    /\ source_ref = ""
    /\ st = [worktree |-> main, index |-> main, cmds |-> << >>]
    /\ head = main
    /\ localAhead = FALSE
    /\ wt0 = main
    /\ changed_files = << >>
    /\ deleted_files = << >>
    /\ json_changed = FALSE
    /\ sync = NoSync
    /\ commit_msg = ""
    /\ listed = NoListing
    /\ pr_cmd = NoCommand
    /\ out_admin = << >>
    /\ out_ext = << >>

\* Both scripts' get_sync_mapping applied to the same content.
GetSyncMapping ==
    /\ pc = "idle"
    /\ out_admin' = get_sync_mapping(json_content)
    /\ out_ext' = get_sync_mapping_ext(json_content)
    /\ pc' = "mapped"
    /\ UNCHANGED << variant, world, runs, edits, branch_name, st, head, localAhead,
                    wt0, locals >>

NextMapping == GetSyncMapping

SpecMapping == InitMapping /\ [][NextMapping]_vars

\* ================================================================ claims
Count(cmd) == Cardinality({ i \in 1..Len(st.cmds) : st.cmds[i] = cmd })
Issued(cmd) == InSeq(cmd, st.cmds)
BranchName == "auto-update-from-owner/Parent-pr-7"

\* create_or_update_pr has returned (or exited) in this run.
AfterPr == pc \in {"done", "exit1"}

\* C1: when create_or_update_pr ran with commits ahead of origin/main, an
\* empty gh pr list is followed by exactly one gh pr create and no comment,
\* a non-empty one by exactly one gh pr comment on the first listed number
\* and no create; no run issues both.
C1_CreateXorComment ==
    /\ ~(Issued("pr_create") /\ Issued("pr_comment"))
    /\ (AfterPr /\ localAhead) =>
         /\ listed.numbers = << >> =>
                Count("pr_create") = 1 /\ Count("pr_comment") = 0
         /\ listed.numbers # << >> =>
                /\ Count("pr_comment") = 1 /\ Count("pr_create") = 0
                /\ pr_cmd.number = listed.numbers[1]

C1_Witness ==
    /\ pc = "done" /\ localAhead
    /\ listed.numbers # << >>
    /\ pr_cmd.cmd = "pr_comment"

\* C10: get_sync_mapping returns, in order and with duplicates kept, the
\* (source, target) pairs of the items whose source and target are both
\* present and non-empty, the empty list for None or empty content, and the
\* two scripts' versions return the same list.
C10_Present(item) ==
    /\ item.source # NoneStr /\ item.source # ""
    /\ item.target # NoneStr /\ item.target # ""

C10_Expected(content) ==
    IF content = None THEN << >>
    ELSE LET good == SelectSeq(content[1], C10_Present)
         IN [i \in 1..Len(good) |-> << good[i].source, good[i].target >>]

C10_MappingFilter ==
    pc = "mapped" =>
        /\ out_admin = C10_Expected(json_content)
        /\ out_ext = out_admin

C10_Witness ==
    /\ pc = "mapped"
    /\ json_content # None
    /\ Len(json_content[1]) = 2
    /\ json_content[1][1] = json_content[1][2]
    /\ Len(out_admin) = 2

\* C2 (as claimed): every run uses the branch auto-update-from-<repo>-pr-<n>,
\* the target repository never holds more than one pull request with that
\* head, and once one exists a run that reaches create_or_update_pr never
\* issues gh pr create again.
PullsOf(head_branch) == { i \in 1..Len(prs) : prs[i].head = head_branch }
OpenPullsOf(head_branch) == { i \in PullsOf(head_branch) : prs[i].state = "open" }

C2_SinglePrEver ==
    /\ runs > 0 => branch_name = BranchName
    /\ Cardinality(PullsOf(BranchName)) <= 1
    /\ (AfterPr /\ Issued("pr_create")) => Len(prs) <= 1

\* C2 (amended): every run uses that branch name, the target repository never
\* holds more than one OPEN pull request with that head, and a run whose
\* gh pr list returns the pull request (it is still open) comments on it and
\* issues no gh pr create.
C2_SingleOpenPr ==
    /\ runs > 0 => branch_name = BranchName
    /\ Cardinality(OpenPullsOf(BranchName)) <= 1
    /\ (AfterPr /\ listed.numbers # << >>) =>
         /\ ~Issued("pr_create")
         /\ Issued("pr_comment")
         /\ pr_cmd.number \in OpenPullsOf(BranchName)

C2_Witness ==
    /\ pc = "done"
    /\ runs = 2
    /\ Len(prs) = 1
    /\ prs[1].state = "open"
    /\ Issued("pr_comment")

\* The mapping admin_utils run_sync iterates over in this run.
AdminMapping == get_sync_mapping(json_content)
AdminRan == variant = "admin" /\ sync.ran

\* C3: admin_utils run_sync with a non-empty mapping hands a pair to
\* sync_files_from_source iff the content of its source at the source ref
\* and of its target at origin/main differ, a missing path counting as its
\* own value; files_to_sync_found iff some pair is handed on.
C3_Differs(pair) == source[pair[1]] # main[pair[2]]

C3_SelectedIffShaDiffers ==
    (AdminRan /\ AdminMapping # << >>) =>
        /\ \A i \in 1..Len(AdminMapping) :
               (sync.sync_called /\ InSeq(AdminMapping[i], sync.files_to_sync))
                   <=> C3_Differs(AdminMapping[i])
        /\ sync.files_to_sync_found
               <=> (\E i \in 1..Len(AdminMapping) : C3_Differs(AdminMapping[i]))

C3_Witness ==
    /\ AdminRan
    /\ Len(AdminMapping) = 2
    /\ Len(sync.files_to_sync) = 1
    /\ \E i \in 1..2 : source[AdminMapping[i][1]] = Absent
                       /\ main[AdminMapping[i][2]] = Absent
    /\ \E i \in 1..2 : source[AdminMapping[i][1]] = Absent
                       /\ main[AdminMapping[i][2]] # Absent

\* C4 (as claimed): after admin_utils run_sync, every mapping pair whose
\* blob ids differ and whose source exists at the source ref (an empty file
\* included) has its target in the working tree equal to the source content,
\* and staged.
C4_TargetHoldsSource ==
    AdminRan =>
        \A i \in 1..Len(AdminMapping) :
            LET s == AdminMapping[i][1]
                t == AdminMapping[i][2]
            IN (C3_Differs(AdminMapping[i]) /\ source[s] # Absent) =>
                   st.worktree[t] = source[s] /\ st.index[t] = source[s]

\* The mapping of this run and what counts as a deleted source: absent at the
\* source ref (admin_utils), listed as removed in the PR (external_pr_files).
ExtMapping == get_sync_mapping_ext(json_content)
RunMapping == IF variant = "admin" THEN AdminMapping ELSE ExtMapping
SourceDeleted(s) ==
    IF variant = "admin" THEN source[s] = Absent ELSE InSeq(s, deleted_files)

\* C5 (as claimed): after run_sync, a mapped target that was in the working
\* tree and whose source is deleted is removed and has_changes is true; a
\* target whose source is not deleted is not removed; deleted sources whose
\* targets were already absent raise no change flag.
C5_DeletionMirrored ==
    sync.ran =>
        /\ \A i \in 1..Len(RunMapping) :
            LET s == RunMapping[i][1]
                t == RunMapping[i][2]
            IN /\ (SourceDeleted(s) /\ wt0[t] # Absent) =>
                      st.worktree[t] = Absent /\ sync.has_changes
               /\ (~SourceDeleted(s) /\ wt0[t] # Absent) => st.worktree[t] # Absent
        /\ ( /\ ~json_changed
             /\ \A i \in 1..Len(RunMapping) :
                    SourceDeleted(RunMapping[i][1]) /\ wt0[RunMapping[i][2]] = Absent )
           => ~sync.has_changes

\* C6: external_pr_files run_sync hands to sync_files_from_pr exactly the
\* mapping pairs whose source is a changed file other than the tracked JSON;
\* a changed file without a mapping entry changes no target; and
\* files_to_sync_found iff that set is non-empty or a mapped target was
\* deleted.
ExtRan == variant = "ext" /\ sync.ran
C6_Wanted ==
    { ExtMapping[j] : j \in { k \in 1..Len(ExtMapping) :
          \E i \in 1..Len(changed_files) :
              changed_files[i] # JsonPath /\ changed_files[i] = ExtMapping[k][1] } }
C6_TargetDeleted == \E t \in TgtPaths : wt0[t] # Absent /\ st.worktree[t] = Absent

C6_ChangedMappedPairs ==
    ExtRan =>
        /\ { sync.files_to_sync[k] : k \in 1..Len(sync.files_to_sync) } = C6_Wanted
        /\ sync.sync_called <=> C6_Wanted # {}
        /\ \A t \in TgtPaths :
               st.worktree[t] # wt0[t] => \E pair \in C6_Wanted : pair[2] = t
        /\ sync.files_to_sync_found <=> (C6_Wanted # {} \/ C6_TargetDeleted)

C6_Witness ==
    /\ ExtRan
    /\ InSeq(UnmappedPath, changed_files)
    /\ InSeq(JsonPath, changed_files)
    /\ Len(ExtMapping) = 2
    /\ Len(sync.files_to_sync) = 1
    /\ st.worktree["t1"] # wt0["t1"]

\* C7: in every run the commands come in the order stage, commit, push, PR
\* list, PR create/comment; a PR create or comment is preceded by the push
\* of the same run; commit and push happen only after run_sync reported
\* has_changes.
Rank(cmd) ==
    CASE cmd \in {"add", "rm"} -> 1
      [] cmd = "commit" -> 2
      [] cmd = "push" -> 3
      [] cmd = "pr_list" -> 4
      [] cmd \in {"pr_create", "pr_comment"} -> 5
      [] OTHER -> 0

C7_StepOrder ==
    /\ \A i \in 1..Len(st.cmds) :
           i > 1 => Rank(st.cmds[i - 1]) <= Rank(st.cmds[i])
    /\ Count("commit") <= 1 /\ Count("push") <= 1 /\ Count("pr_list") <= 1
    /\ (Issued("pr_create") \/ Issued("pr_comment")) => Issued("push")
    /\ (Issued("commit") \/ Issued("push")) => sync.ran /\ sync.has_changes

C7_Witness ==
    /\ pc = "done"
    /\ Issued("add") /\ Issued("commit") /\ Issued("push")
    /\ Issued("pr_list") /\ Issued("pr_create")

\* C8 (as claimed): sync_files_from_source returns True iff the call changed
\* some target file of the working tree.
C8_TrueIffTreeChanged ==
    (AdminRan /\ sync.sync_called) =>
        (sync.synced <=> \E t \in TgtPaths : st.worktree[t] # wt0[t])

\* C9: get_json_from_source reports json_changed iff the tracked JSON differs
\* between the source ref and origin/main (missing counting as its own
\* value); unchanged, it leaves working tree and index alone; changed with a
\* readable source JSON, the local file holds the source text, is staged, and
\* the parsed text is returned; changed because the source lacks the JSON,
\* the local file is gone from tree and index and None is returned.  No
\* other path is touched.
AfterJson == variant = "admin" /\ pc = "json"

C9_JsonFromSource ==
    AfterJson =>
        LET src_json == source[JsonPath]
        IN /\ json_changed <=> (src_json # main[JsonPath])
           /\ ~json_changed => st.worktree = wt0 /\ st.index = wt0
           /\ \A p \in TgtPaths : st.worktree[p] = wt0[p] /\ st.index[p] = wt0[p]
           /\ (json_changed /\ src_json # Absent /\ src_json # "") =>
                  /\ st.worktree[JsonPath] = src_json
                  /\ st.index[JsonPath] = src_json
                  /\ json_content = Some(JsonLoads(src_json))
           /\ (json_changed /\ src_json = Absent) =>
                  /\ st.worktree[JsonPath] = Absent
                  /\ st.index[JsonPath] = Absent
                  /\ json_content = None

C9_Witness ==
    /\ AfterJson
    /\ json_changed
    /\ source[JsonPath] = Absent
    /\ wt0[JsonPath] # Absent
    /\ st.worktree[JsonPath] = Absent

\* The mapping stored in the tracked JSON at the source ref (empty when the
\* source ref has no readable JSON).
SourceMapping ==
    IF source[JsonPath] \in {DocOne, DocTwo}
    THEN C10_Expected(Some(JsonLoads(source[JsonPath])))
    ELSE << >>

\* The run is past the step that loads the JSON.
PastJson == pc \in {"json", "synced", "pushed", "done", "exit0", "exit1"}
NoCommitPushPr ==
    /\ ~Issued("commit") /\ ~Issued("push")
    /\ ~Issued("pr_create") /\ ~Issued("pr_comment")

\* Nothing to mirror, admin_utils: the JSON blob is the same at the source ref
\* and at origin/main and every pair of the run's mapping has equal blobs.
NothingToMirrorAdmin ==
    /\ source[JsonPath] = main[JsonPath]
    /\ \A i \in 1..Len(AdminMapping) :
           source[AdminMapping[i][1]] = main[AdminMapping[i][2]]

\* Nothing to mirror, external_pr_files: the JSON is not a changed file and
\* no changed file is a source of the mapping.
NothingToMirrorExt ==
    /\ ~InSeq(JsonPath, changed_files)
    /\ \A i \in 1..Len(changed_files) :
           \A j \in 1..Len(SourceMapping) : SourceMapping[j][1] # changed_files[i]

AdminRunOver == AdminRan /\ pc \in {"done", "exit0", "exit1"}
MainUnchanged == \A i \in 1..Len(prs) : prs[i].state # "merged"

\* C12 (as claimed): after any sequence of admin_utils runs with origin/main
\* unchanged, every pair of the current mapping has, at its target path on
\* the sync branch, the content its source path has at the source ref (both
\* missing counting as equal).
C12_BranchHoldsSource ==
    (AdminRunOver /\ MainUnchanged) =>
        \A i \in 1..Len(AdminMapping) :
            branch[AdminMapping[i][2]] = source[AdminMapping[i][1]]

\* C13 (as claimed): in every admin_utils run whose source ref has the
\* tracked JSON, the mapping run_sync iterates over is the mapping of that
\* JSON, and when json_changed is false the content loaded from the working
\* tree is the parsed JSON of the source ref.
C13_MappingFromSourceRef ==
    (variant = "admin" /\ PastJson /\ (pc = "exit0" => sync.ran)
        /\ source[JsonPath] # Absent) =>
        /\ AdminMapping = SourceMapping
        /\ ~json_changed => json_content = Some(JsonLoads(source[JsonPath]))

\* C14: in admin_utils main the source ref is parent-repo/<baseRefName>
\* (main when the key is missing) iff mergedAt is set and
\* parent-repo/<headRefName> otherwise; it is set after the fetch of the
\* parent-repo remote, and the JSON comparison, the selection of pairs and
\* the contents written all come from the tree at that ref.
C14_ExpectedRef ==
    IF pr_data.mergedAt # NoneStr
    THEN "parent-repo/" \o
             (IF pr_data.baseRefName = NoneStr THEN "main" ELSE pr_data.baseRefName)
    ELSE "parent-repo/" \o pr_data.headRefName

C14_SourceRefChoice ==
    (variant = "admin" /\ source_ref # "") =>
        /\ source_ref = C14_ExpectedRef
        /\ Issued("fetch")
        /\ PastJson => (json_changed <=> source[JsonPath] # main[JsonPath])
        /\ sync.ran =>
               \A i \in 1..Len(AdminMapping) :
                   LET s == AdminMapping[i][1]
                       t == AdminMapping[i][2]
                   IN /\ InSeq(AdminMapping[i], sync.files_to_sync)
                          <=> source[s] # main[t]
                      /\ (source[s] # main[t] /\ source[s] \notin {Absent, ""})
                          => st.worktree[t] = source[s]

C14_Witness ==
    /\ variant = "admin"
    /\ pr_data.mergedAt # NoneStr
    /\ pr_data.baseRefName = NoneStr
    /\ source_ref = "parent-repo/main"
    /\ pc = "done"
    /\ json_changed
    /\ Len(sync.files_to_sync) = 2

\* commit_and_push_changes has run in this run.
Committed == pc \in {"pushed", "done", "exit1"}
MappingOnlyMessage == "Update sync mapping from owner/Parent PR 7"
SyncMessage == "Sync changes from owner/Parent PR 7"

\* C15: the commit message is 'Update sync mapping from <repo> PR <n>'
\* exactly when json_changed is true and files_to_sync_found is false and
\* 'Sync changes from <repo> PR <n>' otherwise; commit_and_push_changes runs
\* only after has_changes, and the mapping-only message is used precisely
\* when the JSON changed, no mapping pair was selected and no target file
\* was written or removed.
C15_CommitMessage ==
    Committed =>
        /\ sync.has_changes
        /\ commit_msg \in {MappingOnlyMessage, SyncMessage}
        /\ commit_msg = MappingOnlyMessage
               <=> (json_changed /\ ~sync.files_to_sync_found)
        /\ commit_msg = MappingOnlyMessage
               <=> /\ json_changed
                   /\ sync.files_to_sync = << >>
                   /\ ~sync.has_deletions
                   /\ \A t \in TgtPaths : st.worktree[t] = wt0[t]

C15_Witness ==
    /\ pc = "done"
    /\ commit_msg = MappingOnlyMessage
    /\ json_changed
    /\ json_content # None
    /\ sync.files_to_sync = << >>

\* C16: a run started with GH_TOKEN unset or empty ends with exit status 1
\* (in validate_and_process_inputs) having run no git and no gh command: no
\* clone, no label command, no checkout, no commit, push or PR operation;
\* and only such a run ends there.
C16_NoTokenNoCommand ==
    /\ (pc # "idle" /\ gh_token \in {NoneStr, ""}) =>
           /\ pc = "exit1_inputs"
           /\ st.cmds = << >>
           /\ ~sync.ran
           /\ pr_cmd = NoCommand
    /\ pc = "exit1_inputs" => gh_token \in {NoneStr, ""}

C16_Witness ==
    /\ pc = "exit1_inputs"
    /\ gh_token = ""
    /\ runs = 2
    /\ branchExists
    /\ Len(prs) = 1

====
